---- MODULE Spec2Model ----
(***************************************************************************)
(* caldav-mcp: the HTTP session router (api/mcp.ts), the CalendarService   *)
(* facade and its listEvents filter / format pipeline (src/index.ts).      *)
(*                                                                         *)
(* Six specifications share the variables:                                 *)
(*   Spec         overlapping HTTP requests through handler()              *)
(*   FacadeSpec   one CalendarService used directly (constructor,          *)
(*                initialize, getCalendar, listCalendars, createEvent,     *)
(*                listEvents)                                              *)
(*   ListSpec     listEvents on a Ready facade over drawn batches/windows  *)
(*   CreateSpec   createEvent on a Ready facade, directly or through the   *)
(*                create-event tools                                       *)
(*   StartupSpec  start-up of one process: CLI main, the class, the        *)
(*                HTTP handler                                             *)
(*   CompiledSpec overlapping HTTP requests through the compiled handler   *)
(*                (.vercel/output/functions/api/api/mcp.js)                *)
(***************************************************************************)
EXTENDS Integers, Sequences, FiniteSets, TLC

VARIABLES
    baseUrlSet,   \* process.env.CALDAV_BASE_URL is set
    tzOffset,     \* new Date().getTimezoneOffset() of the process, minutes
    globalFetch,  \* global.fetch: "original" or "proxy"
    transports,   \* api/mcp.ts: const transports (own properties only)
    tr,           \* the StreamableHTTPServerTransport made by request r
    req,          \* the handler() invocation of request r
    nextUuid,     \* how many ids randomUUID() has handed out
    registered,   \* history: the keys inserted into transports, in order
    closedIds,    \* history: session ids whose transport signalled closure
    svc,          \* CalendarService instances (0: used directly, r: made by request r)
    objects,      \* what the CalDAV server answers to fetchCalendarObjects
    call,         \* the facade call in flight / last finished (FacadeSpec, ListSpec)
    ncalls        \* facade calls started so far

vars == <<baseUrlSet, tzOffset, globalFetch, transports, tr, req, nextUuid,
          registered, closedIds, svc, objects, call, ncalls>>

(***************************************************************************)
(* Bounds                                                                  *)
(***************************************************************************)
MaxReqs == 3

Reqs == 1..MaxReqs

ServiceIds == 0..MaxReqs

\* calls made on the facade used directly
MaxCalls == 4

Calls == 1..MaxCalls

\* objects in one answer of the server
MaxObjs == 2

\* the last millisecond Date.now() reaches, counted from the first
\* createEvent call
MaxNow == 1

(***************************************************************************)
(* JavaScript values                                                       *)
(***************************************************************************)
\* the header / argument is absent (undefined)
Absent == "<undefined>"

\* JS truthiness of an optional string: undefined and "" are falsy
Truthy(s) == s # Absent /\ s # ""

\* Names every object literal inherits from Object.prototype; transports is `{}`
InheritedKeys == {"constructor"}

\* randomUUID(): the n-th identifier handed out; never repeats
Uuid(n) == "uuid-" \o ToString(n)

\* mcp-session-id header values a client may send: none, an empty one, one no
\* session ever had, a name Object.prototype defines, the first id handed out
HeaderValues == {Absent, "", "abc", "constructor", Uuid(1)}

\* request shapes: an initialize POST, another POST, a session-terminating DELETE
Kinds == {"init", "call", "delete"}

(***************************************************************************)
(* CalendarService: fields and construction (src/index.ts 14-23)           *)
(***************************************************************************)
\* no instance: the constructor never ran or threw
NoFacade == [life |-> "absent", client |-> FALSE, calendars |-> <<>>]

\* constructor(): this.calendars = []; this.client stays undefined.
\* life is a history field: Uninitialized, Initializing, Ready or Failed
NewFacade == [life |-> "Uninitialized", client |-> FALSE, calendars |-> <<>>]

MissingBaseUrl == "CALDAV_BASE_URL environment variable is required"

\* a constructor without the test of line 19
ConstructorUnchecked(set) == NewFacade

\* new CalendarService(), lines 18-23, given whether CALDAV_BASE_URL is set:
\* the new object, or NoFacade when the constructor throws
Constructor(set) == IF set THEN NewFacade ELSE NoFacade

NoCalendarsFound == "No calendars found"

\* one calendar of the account, as tsdav's fetchCalendars returns it
Cal(name, url, desc) == [displayName |-> name, url |-> url, description |-> desc]

Work == Cal("Work", "/cal/work/", "Office")

Home == Cal("Home", "/cal/home/", Absent)

Work2 == Cal("Work", "/cal/work-2/", Absent)

\* answers of client.fetchCalendars(): a missing list, an empty one, lists
FetchAnswers ==
    { [missing |-> TRUE, list |-> <<>>],
      [missing |-> FALSE, list |-> <<>>],
      [missing |-> FALSE, list |-> <<Work>>],
      [missing |-> FALSE, list |-> <<Home, Work>>],
      [missing |-> FALSE, list |-> <<Work, Home, Work2>>] }

\* the answers drawn for the services the HTTP handler creates
RouterFetchAnswers ==
    { [missing |-> FALSE, list |-> <<>>],
      [missing |-> FALSE, list |-> <<Work>>] }

\* initialize() lines 64-67: !calendars || calendars.length === 0
NoCalendars(ans) == ans.missing \/ Len(ans.list) = 0

\* initialize() up to `await createDAVClient`: the fetch proxy is installed
\* (line 28) and taken out again (line 47) before the first await
InitializeEnter(f) == [f EXCEPT !.life = "Initializing"]

\* initialize() line 54 resolved: this.client is assigned
InitializeClient(f) == [f EXCEPT !.client = TRUE]

\* an initialize that takes whatever list it was given
InitializeCalendarsAlwaysReady(f, ans) ==
    [f EXCEPT !.life = "Ready", !.calendars = ans.list]

\* initialize() lines 64-68 after fetchCalendars resolved with ans
InitializeCalendars(f, ans) ==
    IF NoCalendars(ans)
    THEN [f EXCEPT !.life = "Failed"]
    ELSE [f EXCEPT !.life = "Ready", !.calendars = ans.list]

\* initialize() rejected by createDAVClient or fetchCalendars
InitializeRejected(f) == [f EXCEPT !.life = "Failed"]

(***************************************************************************)
(* HTTP handler (api/mcp.ts)                                               *)
(***************************************************************************)
NoResp == [kind |-> "none", status |-> 0, code |-> 0, message |-> "", id |-> ""]

\* lines 114-121: res.status(400).json({jsonrpc, error: {code, message}, id: null})
BadRequest ==
    [kind |-> "json", status |-> 400, code |-> -32000,
     message |-> "Bad Request: No valid session ID provided", id |-> "null"]

\* the handler's promise rejects with an Error carrying msg
Thrown(msg) == [kind |-> "throw", status |-> 0, code |-> 0, message |-> msg, id |-> ""]

\* the transport wrote the response itself (MCP SDK)
SdkResp(what) == [kind |-> "sdk", status |-> 0, code |-> 0, message |-> what, id |-> ""]

NoTransport ==
    [exists |-> FALSE, server |-> FALSE, sessionId |-> Absent,
     initialized |-> FALSE, connected |-> FALSE, closed |-> FALSE]

\* new StreamableHTTPServerTransport({...}) and new McpServer({...}), lines 21-39
NewTransport == [NoTransport EXCEPT !.exists = TRUE, !.server = TRUE]

\* one handler() invocation: its position, its request, the value bound to
\* the local `transport` (bound, t) and what was answered.
\* History fields: known, the header was an own key of transports at line 16;
\* late, the header named a session that had already been closed.
\* originalFetch is the local of that name of the compiled handler
\* (.vercel/output/functions/api/api/mcp.js, line 37)
NewReq ==
    [pc |-> "new", hdr |-> Absent, kind |-> "call", known |-> FALSE, late |-> FALSE,
     bound |-> "none", t |-> 0, resp |-> NoResp, originalFetch |-> "none"]

\* Lookup with the handler keeping one shared `transport` variable: a known
\* id finds the transport created last
LookupLatestTransport(sid) ==
    IF sid \in DOMAIN transports
    THEN [kind |-> "transport",
          t |-> CHOOSE t \in Reqs : tr[t].exists /\ \A u \in Reqs : tr[u].exists => u <= t]
    ELSE IF sid \in InheritedKeys THEN [kind |-> "inherited", t |-> 0]
    ELSE [kind |-> "undefined", t |-> 0]

\* transports[sessionId] on the object literal of line 9
Lookup(sid) ==
    IF sid \in DOMAIN transports THEN [kind |-> "transport", t |-> transports[sid]]
    ELSE IF sid \in InheritedKeys THEN [kind |-> "inherited", t |-> 0]
    ELSE [kind |-> "undefined", t |-> 0]

\* line 16: sessionId && transports[sessionId]
ReuseBranch(hdr) == Truthy(hdr) /\ Lookup(hdr).kind # "undefined"

\* line 19: !sessionId && isInitializeRequest(req.body)
InitBranch(hdr, kind) == ~Truthy(hdr) /\ kind = "init"

\* onsessioninitialized storing every transport under one constant key
OnSessionInitializedFixedKey(m, sid, t) ==
    [k \in DOMAIN m \cup {"session"} |-> IF k = "session" THEN t ELSE m[k]]

\* lines 23-26, onsessioninitialized: transports[sessionId] = transport
OnSessionInitialized(m, sid, t) ==
    [k \in DOMAIN m \cup {sid} |-> IF k = sid THEN t ELSE m[k]]

\* onclose that forgets the delete
OnCloseKeepsEntry(m, t) == m

\* lines 30-34, transport.onclose: delete transports[transport.sessionId]
OnClose(m, t) ==
    IF Truthy(tr[t].sessionId)
    THEN [k \in DOMAIN m \ {tr[t].sessionId} |-> m[k]]
    ELSE m

\* line 126, transport.handleRequest(req, res, req.body), the part the
\* transport runs before it first yields:
\*   an initialize POST on a transport without session draws the id from
\*     sessionIdGenerator (line 22) and calls onsessioninitialized;
\*   a DELETE closes the transport, which calls onclose;
\*   any other POST is dispatched to the server's tool handlers (44-108).
HandleRequest(t, kind) ==
    CASE kind = "init" /\ tr[t].initialized ->
            [map |-> transports, tr |-> tr, uuid |-> nextUuid,
             resp |-> SdkResp("already initialized")]
      [] kind = "init" /\ ~tr[t].initialized ->
            [map |-> OnSessionInitialized(transports, Uuid(nextUuid + 1), t),
             tr |-> [tr EXCEPT ![t].sessionId = Uuid(nextUuid + 1),
                               ![t].initialized = TRUE],
             uuid |-> nextUuid + 1,
             resp |-> SdkResp("initialized")]
      [] kind = "delete" ->
            [map |-> OnClose(transports, t),
             tr |-> [tr EXCEPT ![t].closed = TRUE],
             uuid |-> nextUuid,
             resp |-> SdkResp("closed")]
      [] OTHER ->
            [map |-> transports, tr |-> tr, uuid |-> nextUuid,
             resp |-> SdkResp("dispatched")]

\* history: the key a step inserted into transports, if any
NewKeys(m) ==
    IF DOMAIN m \subseteq DOMAIN transports THEN <<>>
    ELSE <<CHOOSE k \in DOMAIN m \ DOMAIN transports : TRUE>>

\* request slots are taken in order
MayStart(r) == req[r].pc = "new" /\ (IF r = 1 THEN TRUE ELSE req[r - 1].pc # "new")

\* lines 13-18 and 125-126: the header names something transports[...] finds;
\* handleRequest is invoked on it
HandlerReuse(r, hdr, kind) ==
    /\ MayStart(r)
    /\ ReuseBranch(hdr)
    /\ LET v == Lookup(hdr)
           base == [req[r] EXCEPT !.hdr = hdr, !.kind = kind, !.pc = "done",
                                  !.late = (hdr \in closedIds),
                                  !.known = (hdr \in DOMAIN transports),
                                  !.bound = v.kind, !.t = v.t]
       IN  IF v.kind = "transport"
           THEN LET h == HandleRequest(v.t, kind)
                IN  /\ req' = [req EXCEPT ![r] = [base EXCEPT !.resp = h.resp]]
                    /\ transports' = h.map
                    /\ tr' = h.tr
                    /\ nextUuid' = h.uuid
                    /\ registered' = registered \o NewKeys(h.map)
                    /\ closedIds' = closedIds \cup
                            {tr[t].sessionId : t \in {x \in Reqs : h.tr[x].closed}}
           ELSE /\ req' = [req EXCEPT ![r] = [base EXCEPT !.resp =
                        Thrown("TypeError: transport.handleRequest is not a function")]]
                /\ UNCHANGED <<transports, tr, nextUuid, registered, closedIds>>
    /\ UNCHANGED <<baseUrlSet, tzOffset, globalFetch, svc, objects, call, ncalls>>

\* the initialization branch with calendarService.initialize() not awaited:
\* server.connect is issued while the facade is still initializing
HandlerInitNoAwait(r, hdr, kind) ==
    /\ MayStart(r)
    /\ ~ReuseBranch(hdr)
    /\ InitBranch(hdr, kind)
    /\ tr' = [tr EXCEPT ![r] = NewTransport]
    /\ LET base == [req[r] EXCEPT !.hdr = hdr, !.kind = kind, !.known = FALSE,
                                  !.bound = "transport", !.t = r]
       IN  IF Constructor(baseUrlSet) # NoFacade
           THEN /\ svc' = [svc EXCEPT ![r] = InitializeEnter(Constructor(baseUrlSet))]
                /\ req' = [req EXCEPT ![r] = [base EXCEPT !.pc = "awaitConnect"]]
           ELSE /\ svc' = svc
                /\ req' = [req EXCEPT ![r] =
                        [base EXCEPT !.pc = "done", !.resp = Thrown(MissingBaseUrl)]]
    /\ UNCHANGED <<baseUrlSet, tzOffset, globalFetch, transports, nextUuid,
                   registered, closedIds, objects, call, ncalls>>

\* lines 19-42: an initialization request without session id, up to the
\* await of calendarService.initialize()
HandlerInit(r, hdr, kind) ==
    /\ MayStart(r)
    /\ ~ReuseBranch(hdr)
    /\ InitBranch(hdr, kind)
    /\ tr' = [tr EXCEPT ![r] = NewTransport]
    /\ LET base == [req[r] EXCEPT !.hdr = hdr, !.kind = kind, !.known = FALSE,
                                  !.bound = "transport", !.t = r]
       IN  IF Constructor(baseUrlSet) # NoFacade
           THEN /\ svc' = [svc EXCEPT ![r] = InitializeEnter(Constructor(baseUrlSet))]
                /\ req' = [req EXCEPT ![r] = [base EXCEPT !.pc = "awaitInitialize"]]
           ELSE /\ svc' = svc
                /\ req' = [req EXCEPT ![r] =
                        [base EXCEPT !.pc = "done", !.resp = Thrown(MissingBaseUrl)]]
    /\ UNCHANGED <<baseUrlSet, tzOffset, globalFetch, transports, nextUuid,
                   registered, closedIds, objects, call, ncalls>>

\* lines 112-123: anything else
HandlerReject(r, hdr, kind) ==
    /\ MayStart(r)
    /\ ~ReuseBranch(hdr)
    /\ ~InitBranch(hdr, kind)
    /\ req' = [req EXCEPT ![r] =
            [req[r] EXCEPT !.hdr = hdr, !.kind = kind, !.known = FALSE,
                           !.late = (hdr \in closedIds),
                           !.pc = "done", !.resp = BadRequest]]
    /\ UNCHANGED <<baseUrlSet, tzOffset, globalFetch, transports, tr, nextUuid,
                   registered, closedIds, svc, objects, call, ncalls>>

\* line 42 rejects: createDAVClient (src/index.ts 54) failed
HandlerInitializeRejected(r) ==
    /\ req[r].pc = "awaitInitialize"
    /\ svc' = [svc EXCEPT ![r] = InitializeRejected(svc[r])]
    /\ req' = [req EXCEPT ![r].pc = "done", ![r].resp = Thrown("createDAVClient failed")]
    /\ UNCHANGED <<baseUrlSet, tzOffset, globalFetch, transports, tr, nextUuid,
                   registered, closedIds, objects, call, ncalls>>

\* line 42 settles after fetchCalendars answered (src/index.ts 54-68); on
\* success the tools are registered (44-108) and server.connect(transport)
\* is issued (111)
HandlerInitializeSettled(r, ans) ==
    /\ req[r].pc = "awaitInitialize"
    /\ svc' = [svc EXCEPT ![r] = InitializeCalendars(InitializeClient(svc[r]), ans)]
    /\ IF NoCalendars(ans)
       THEN req' = [req EXCEPT ![r].pc = "done", ![r].resp = Thrown(NoCalendarsFound)]
       ELSE req' = [req EXCEPT ![r].pc = "awaitConnect"]
    /\ UNCHANGED <<baseUrlSet, tzOffset, globalFetch, transports, tr, nextUuid,
                   registered, closedIds, objects, call, ncalls>>

\* line 111 resolved, then lines 125-126: handleRequest on the new transport
HandlerConnected(r) ==
    /\ req[r].pc = "awaitConnect"
    /\ LET h == HandleRequest(r, req[r].kind)
       IN  /\ req' = [req EXCEPT ![r].pc = "done", ![r].resp = h.resp]
           /\ transports' = h.map
           /\ tr' = [h.tr EXCEPT ![r].connected = TRUE]
           /\ nextUuid' = h.uuid
           /\ registered' = registered \o NewKeys(h.map)
    /\ UNCHANGED <<baseUrlSet, tzOffset, globalFetch, closedIds, svc, objects,
                   call, ncalls>>

(***************************************************************************)
(* iCalendar text                                                          *)
(*                                                                         *)
(* A text is a sequence of tokens, each a piece of the string the regular  *)
(* expressions of listEvents tell apart:                                   *)
(*   name   an occurrence of a property name (s: DTSTART, DTEND, ...)       *)
(*   tzid   ";TZID=" and a zone name without colon (s)                     *)
(*   vdate  ";VALUE=DATE"                                                  *)
(*   colon  ":"                                                            *)
(*   dt     YYYYMMDDTHHMMSS (d: day number, m: minute of the day), with    *)
(*          s = "Z" when the text ends in Z                                *)
(*   date   YYYYMMDD (d)                                                   *)
(*   text   any other characters of one line (s)                           *)
(*   nl     "\n"                                                           *)
(***************************************************************************)
Tok(t, s, d, m) == [t |-> t, s |-> s, d |-> d, m |-> m]

Name(n) == Tok("name", n, 0, 0)

TzId(z) == Tok("tzid", z, 0, 0)

VDate == Tok("vdate", "", 0, 0)

Colon == Tok("colon", "", 0, 0)

NL == Tok("nl", "", 0, 0)

Text(x) == Tok("text", x, 0, 0)

DateTime(d, m, z) == Tok("dt", z, d, m)

DateOnly(d) == Tok("date", "", d, 0)

\* minutes in a day: what setDate(getDate() - 1) takes off (no DST change)
MinutesPerDay == 1440

\* a JavaScript Date: an instant in minutes, or Invalid Date
ValidDate(t) == [valid |-> TRUE, t |-> t]

InvalidDate == [valid |-> FALSE, t |-> 0]

\* ISO strings handed to new Date(): "YYYY-MM-DD", "YYYY-MM-DDTHH:MM:SS" and
\* the same ending in Z
IsoDate(d) == [form |-> "date", d |-> d, m |-> 0, z |-> ""]

IsoLocal(d, m) == [form |-> "datetime", d |-> d, m |-> m, z |-> ""]

IsoUtc(d, m) == [form |-> "datetime", d |-> d, m |-> m, z |-> "Z"]

\* a string new Date() cannot read
NotIso == [form |-> "raw", d |-> 0, m |-> 0, z |-> ""]

\* new Date(iso): a date alone is UTC midnight, a date-time without Z is
\* local time (UTC = local + getTimezoneOffset()), one with Z is UTC
NewDate(iso) ==
    CASE iso.form = "date" -> ValidDate(iso.d * MinutesPerDay)
      [] iso.form = "datetime" /\ iso.z = "Z" -> ValidDate(iso.d * MinutesPerDay + iso.m)
      [] iso.form = "datetime" /\ iso.z # "Z" ->
            ValidDate(iso.d * MinutesPerDay + iso.m + tzOffset)
      [] OTHER -> InvalidDate

\* date.setMinutes(date.getMinutes() + n)
AddMinutes(date, n) == IF date.valid THEN ValidDate(date.t + n) ELSE date

\* a <= b on Dates: false when either is Invalid Date
DateLeq(a, b) == a.valid /\ b.valid /\ a.t <= b.t

\* positions of text where the property called n starts
NameAt(text, n) == {i \in 1..Len(text) : text[i].t = "name" /\ text[i].s = n}

\* [^\n]+ from position j: the tokens up to the end of the line
RestOfLine(text, j) ==
    LET stops == {k \in j..Len(text) : text[k].t = "nl"}
        last == IF stops = {} THEN Len(text)
                ELSE (CHOOSE k \in stops : \A x \in stops : k <= x) - 1
    IN  SubSeq(text, j, last)

\* DTSTART(?:;TZID=([^:]+))?(?:;VALUE=DATE)?:([^\n]+) tried at position i
\* (the same expression with DTEND): where the colon stands, or 0
DateColonAt(text, i) ==
    LET a == IF i + 1 <= Len(text) /\ text[i + 1].t = "tzid" THEN i + 2 ELSE i + 1
        b == IF a <= Len(text) /\ text[a].t = "vdate" THEN a + 1 ELSE a
    IN  IF b <= Len(text) /\ text[b].t = "colon" /\ RestOfLine(text, b + 1) # <<>>
        THEN b ELSE 0

NoMatch == [found |-> FALSE, tz |-> Absent, value |-> <<>>]

\* text.match(/DTSTART.../) or /DTEND.../: the leftmost match, with the
\* captured TZID (greedy [^:]+ also takes a following ;VALUE=DATE) and value
MatchDate(text, n) ==
    LET hits == {i \in NameAt(text, n) : DateColonAt(text, i) # 0}
    IN  IF hits = {} THEN NoMatch
        ELSE LET i == CHOOSE x \in hits : \A y \in hits : x <= y
                 c == DateColonAt(text, i)
             IN  [found |-> TRUE,
                  tz |-> IF text[i + 1].t # "tzid" THEN Absent
                         ELSE IF text[i + 2].t = "vdate"
                              THEN text[i + 1].s \o ";VALUE=DATE"
                              ELSE text[i + 1].s,
                  value |-> RestOfLine(text, c + 1)]

\* text.match(/SUMMARY:([^\n]+)/)
MatchSummary(text) ==
    LET hits == {i \in NameAt(text, "SUMMARY") :
                    /\ i + 1 <= Len(text)
                    /\ text[i + 1].t = "colon"
                    /\ RestOfLine(text, i + 2) # <<>>}
    IN  IF hits = {} THEN NoMatch
        ELSE [found |-> TRUE, tz |-> Absent,
              value |-> RestOfLine(text, (CHOOSE x \in hits : \A y \in hits : x <= y) + 2)]

\* text.includes('VALUE=DATE')
IncludesValueDate(text) ==
    \E i \in 1..Len(text) :
        text[i].t = "vdate" \/ (text[i].t = "text" /\ text[i].s = "VALUE=DATE")

\* value.replace(/(\d{4})(\d{2})(\d{2})/, '$1-$2-$3'), lines 214-215, 270
DashDate(value) ==
    IF Len(value) = 1 /\ value[1].t = "date" THEN IsoDate(value[1].d) ELSE NotIso

\* value.replace(/(\d{4})(\d{2})(\d{2})T(\d{2})(\d{2})(\d{2})/,
\* '$1-$2-$3T$4:$5:$6'), lines 219, 228, 273-276
DashDateTime(value) ==
    IF Len(value) = 1 /\ value[1].t = "dt"
    THEN [form |-> "datetime", d |-> value[1].d, m |-> value[1].m, z |-> value[1].s]
    ELSE NotIso

\* an object of the calendar: its URL and its text (Absent: no data)
Obj(url, data) == [url |-> url, hasData |-> TRUE, data |-> data]

NoDataObj(url) == [url |-> url, hasData |-> FALSE, data |-> <<>>]

(***************************************************************************)
(* listEvents: filter (lines 185-242) and format (lines 246-289)           *)
(***************************************************************************)
\* an end that forgets the all-day day: endUTC is the raw DTEND
AllDayEndRaw(value) == NewDate(DashDate(value))

\* lines 215-216: the all-day end, one day before the raw DTEND
AllDayEnd(value) == AddMinutes(NewDate(DashDate(value)), 0 - MinutesPerDay)

\* lines 219-225 and 227-234: a timed start or end; a captured TZID adds
\* the local getTimezoneOffset()
TimedDate(value, tz) ==
    IF tz # Absent
    THEN AddMinutes(NewDate(DashDateTime(value)), tzOffset)
    ELSE NewDate(DashDateTime(value))

\* lines 195-199: all three expressions match
Decodable(o) ==
    /\ o.hasData
    /\ MatchDate(o.data, "DTSTART").found
    /\ MatchDate(o.data, "DTEND").found
    /\ MatchSummary(o.data).found

\* lines 204-235: startUTC
EventStart(o) ==
    IF IncludesValueDate(o.data)
    THEN NewDate(DashDate(MatchDate(o.data, "DTSTART").value))
    ELSE TimedDate(MatchDate(o.data, "DTSTART").value, MatchDate(o.data, "DTSTART").tz)

\* lines 204-235: endUTC
EventEnd(o) ==
    IF IncludesValueDate(o.data)
    THEN AllDayEnd(MatchDate(o.data, "DTEND").value)
    ELSE TimedDate(MatchDate(o.data, "DTEND").value, MatchDate(o.data, "DTEND").tz)

\* the comparison with strict inequalities
OverlapsStrict(s, e, startDate, endDate) ==
    /\ s.valid /\ e.valid /\ startDate.valid /\ endDate.valid
    /\ s.t < endDate.t
    /\ e.t > startDate.t

\* line 237: startUTC <= endDate && endUTC >= startDate
Overlaps(s, e, startDate, endDate) == DateLeq(s, endDate) /\ DateLeq(startDate, e)

\* a callback that lets through what it cannot decode
KeepUndecodable(o, startDate, endDate) ==
    Decodable(o) => Overlaps(EventStart(o), EventEnd(o), startDate, endDate)

\* the callback of calendarObjects.filter, lines 185-242
Keep(o, startDate, endDate) ==
    /\ Decodable(o)
    /\ Overlaps(EventStart(o), EventEnd(o), startDate, endDate)

\* a filter that hands the kept objects back last first
FilterEventsReversed(objs, startDate, endDate) ==
    LET kept == SelectSeq(objs, LAMBDA o : Keep(o, startDate, endDate))
    IN  [i \in 1..Len(kept) |-> kept[Len(kept) + 1 - i]]

\* calendarObjects.filter(...), line 185: the kept objects in their order
FilterEvents(objs, startDate, endDate) ==
    SelectSeq(objs, LAMBDA o : Keep(o, startDate, endDate))

\* one line of the returned text
Line(kind, toks, allDay, iso, tz) ==
    [kind |-> kind, toks |-> toks, allDay |-> allDay, iso |-> iso, tz |-> tz]

ErrorLine(msg) == Line("error", <<Text(msg)>>, FALSE, NotIso, Absent)

\* formatDate of lines 267-279; a value the expression does not match is
\* returned as it is (kept in toks)
FormatDate(label, value, tz, allDay) ==
    IF allDay
    THEN Line(label, value, TRUE, DashDate(value), Absent)
    ELSE Line(label, value, FALSE, DashDateTime(value), tz)

\* the callback of filteredEvents.map, lines 246-289: the lines of one block
FormatEvent(o) ==
    IF ~o.hasData THEN <<ErrorLine("Error: Event data is missing")>>
    ELSE IF ~Decodable(o) THEN <<ErrorLine("Error: Could not parse event data")>>
    ELSE LET sm == MatchDate(o.data, "DTSTART")
             em == MatchDate(o.data, "DTEND")
             allDay == IncludesValueDate(o.data)
         IN  << Line("summary", MatchSummary(o.data).value, allDay, NotIso, Absent),
                FormatDate("Start: ", sm.value, sm.tz, allDay),
                FormatDate("End: ", em.value, em.tz, allDay) >>

\* blocks.join("\n"): the lines of all blocks, one after the other
RECURSIVE JoinLines(_)
JoinLines(blocks) ==
    IF blocks = <<>> THEN <<>> ELSE Head(blocks) \o JoinLines(Tail(blocks))

\* filteredEvents.map(...), line 246
FormatEvents(kept) == [i \in 1..Len(kept) |-> FormatEvent(kept[i])]

(***************************************************************************)
(* createEvent: the text it submits (lines 104-134)                        *)
(***************************************************************************)
\* `${x}` of a string that may be undefined
Interpolate(x) == IF x = Absent THEN "undefined" ELSE x

\* the arguments of createEvent: summary is a text (a sequence of tokens),
\* start and end are strings handed to new Date(), reminders is the array
\* (<<>> also when it is undefined: both give no alarm text)
EventArgs(summary, start, end, timezone, recurrence, location, calendarName, reminders) ==
    [summary |-> summary, start |-> start, end |-> end, timezone |-> timezone,
     recurrence |-> recurrence, location |-> location,
     calendarName |-> calendarName, reminders |-> reminders]

NoArgs == EventArgs(<<>>, NotIso, NotIso, Absent, Absent, Absent, Absent, <<>>)

Reminder(action, trigger, description) ==
    [action |-> action, trigger |-> trigger, description |-> description]

\* formatDate of createEvent, lines 104-114: the local wall clock of
\* new Date(date) after "TZID=<timezone>:"; an Invalid Date gives NaN fields
CreateFormatDate(date, timezone) ==
    LET d == NewDate(date)
    IN  <<TzId(Interpolate(timezone)), Colon>> \o
        ( IF d.valid
          THEN <<DateTime((d.t - tzOffset) \div MinutesPerDay,
                          (d.t - tzOffset) % MinutesPerDay, "")>>
          ELSE <<Text("NaNNaNNaNTNaNNaNNaN")>> )

\* a block whose ACTION is DISPLAY whatever the reminder says
AlarmAlwaysDisplay(r) ==
    <<Text("BEGIN:VALARM"), NL, Name("ACTION"), Colon, Text("DISPLAY"), NL,
      Name("TRIGGER"), Colon, Text(r.trigger)>>
    \o (IF Truthy(r.description)
        THEN <<NL, Name("DESCRIPTION"), Colon, Text(r.description)>> ELSE <<>>)
    \o <<NL, Text("END:VALARM")>>

\* lines 118-123: one VALARM block
Alarm(r) ==
    <<Text("BEGIN:VALARM"), NL,
      Name("ACTION"), Colon,
      Text(IF r.action = "DISPLAY" THEN "DISPLAY"
           ELSE IF r.action = "AUDIO" THEN "AUDIO" ELSE "EMAIL"), NL,
      Name("TRIGGER"), Colon, Text(r.trigger)>>
    \o (IF Truthy(r.description)
        THEN <<NL, Name("DESCRIPTION"), Colon, Text(r.description)>> ELSE <<>>)
    \o <<NL, Text("END:VALARM")>>

\* lines 117-124: reminders?.map(...).join('\n') || ''
RECURSIVE AlarmComponents(_)
AlarmComponents(reminders) ==
    IF reminders = <<>> THEN <<>>
    ELSE IF Len(reminders) = 1 THEN Alarm(reminders[1])
    ELSE Alarm(Head(reminders)) \o <<NL>> \o AlarmComponents(Tail(reminders))

\* lines 126-134: iCalString
ICalString(a) ==
    <<Text("BEGIN:VCALENDAR"), NL, Text("VERSION:2.0"), NL,
      Text("PRODID:-//tsdav//tsdav 1.0.0//EN"), NL, Text("BEGIN:VEVENT"), NL,
      Name("SUMMARY"), Colon>> \o a.summary
    \o <<NL, Name("DTSTART")>> \o CreateFormatDate(a.start, a.timezone)
    \o <<NL, Name("DTEND")>> \o CreateFormatDate(a.end, a.timezone)
    \o (IF Truthy(a.recurrence) THEN <<NL, Name("RRULE"), Colon, Text(a.recurrence)>> ELSE <<>>)
    \o (IF Truthy(a.location) THEN <<NL, Name("LOCATION"), Colon, Text(a.location)>> ELSE <<>>)
    \o (IF AlarmComponents(a.reminders) # <<>>
        THEN <<NL>> \o AlarmComponents(a.reminders) ELSE <<>>)
    \o <<NL, Text("END:VEVENT"), NL, Text("END:VCALENDAR")>>

\* the create-event tool of the CLI, lines 391-392
CliCreateArgs(t) ==
    EventArgs(t.summary, t.start, t.end, t.timezone, t.recurrence, t.location,
              t.calendarName, t.reminders)

\* the create-event tool of the HTTP handler, api/mcp.ts lines 91-92: five
\* arguments in the order summary, start, end, recurrence, location
HttpCreateArgs(t) ==
    EventArgs(t.summary, t.start, t.end, t.recurrence, t.location, Absent, Absent, <<>>)

\* what fetchCalendars answered, before any answer
NoAnswer == [missing |-> TRUE, list |-> <<>>]

\* one call on the facade: its arguments, where it stands, what it gave back
\*   lifeAt  the facade's life when the call was made
\*   sent    the call has issued a CalDAV request
\*   out     "none" | "returned" | "thrown";  err: the thrown message
\*   val     what was returned (a sequence; <<>> for undefined / "")
\*   kept    listEvents: filteredEvents
\*   discovery  initialize: how the /.well-known/caldav fetch was answered
\*   via     createEvent: called directly, by the CLI tool or by the HTTP tool
\*   tool    createEvent: the arguments of the tool invocation, if any
\*   args    createEvent: its arguments
\*   submitted  createEvent: what was handed to createCalendarObject
\*   reply   createEvent: the URL the server answered
NoCall ==
    [op |-> "none", pc |-> "idle", name |-> Absent, ws |-> NotIso, we |-> NotIso,
     lifeAt |-> "absent", sent |-> FALSE, out |-> "none", err |-> "",
     answer |-> NoAnswer, val |-> <<>>, kept |-> <<>>,
     discovery |-> "none", via |-> "direct", tool |-> NoArgs, args |-> NoArgs, submitted |-> <<>>, reply |-> ""]

RouterInit ==
    /\ baseUrlSet \in BOOLEAN
    /\ tzOffset = 0
    /\ globalFetch = "original"
    /\ transports = <<>>
    /\ tr = [r \in Reqs |-> NoTransport]
    /\ req = [r \in Reqs |-> NewReq]
    /\ nextUuid = 0
    /\ registered = <<>>
    /\ closedIds = {}
    /\ svc = [s \in ServiceIds |-> NoFacade]
    /\ objects = <<>>
    /\ call = [c \in Calls |-> NoCall]
    /\ ncalls = 0

RouterNext ==
    \/ \E r \in Reqs, hdr \in HeaderValues, kind \in Kinds : HandlerReuse(r, hdr, kind)
    \/ \E r \in Reqs, hdr \in HeaderValues, kind \in Kinds : HandlerInit(r, hdr, kind)
    \/ \E r \in Reqs, hdr \in HeaderValues, kind \in Kinds : HandlerReject(r, hdr, kind)
    \/ \E r \in Reqs : HandlerInitializeRejected(r)
    \/ \E r \in Reqs, ans \in RouterFetchAnswers : HandlerInitializeSettled(r, ans)
    \/ \E r \in Reqs : HandlerConnected(r)

Spec == RouterInit /\ [][RouterNext]_vars

(***************************************************************************)
(* CalendarService used directly (src/index.ts, lines 14-291)              *)
(***************************************************************************)
\* calendar names a caller passes: none, the empty string, and names
Names == {Absent, "", "Work", "Home", "Nonexistent"}

\* names passed to createEvent and listEvents
EventNames == {Absent, "Work", "Nonexistent"}

\* reading .displayName of the undefined getCalendar() gave back
UndefinedCalendar == "Cannot read properties of undefined (reading 'displayName')"

\* new Date(x).toISOString() of an unreadable x, line 183
InvalidTimeValue == "RangeError: Invalid time value"

NotFound(name) == "Calendar \"" \o name \o "\" not found"

Returned(val) == [out |-> "returned", err |-> "", val |-> val]

Threw(msg) == [out |-> "thrown", err |-> msg, val |-> <<>>]

\* this.calendars[0], line 74: undefined (here <<>>) when the list is empty
FirstCalendar(f) == IF Len(f.calendars) = 0 THEN <<>> ELSE <<f.calendars[1]>>

\* getCalendar answering the first calendar when no display name matches
GetCalendarNoThrow(f, name) ==
    LET hits == {i \in 1..Len(f.calendars) : f.calendars[i].displayName = name}
    IN  IF ~Truthy(name) \/ hits = {}
        THEN Returned(FirstCalendar(f))
        ELSE Returned(<<f.calendars[CHOOSE i \in hits : \A j \in hits : i <= j]>>)

\* getCalendar, lines 72-81
GetCalendar(f, name) ==
    LET hits == {i \in 1..Len(f.calendars) : f.calendars[i].displayName = name}
    IN  IF ~Truthy(name)
        THEN Returned(FirstCalendar(f))
        ELSE IF hits = {}
             THEN Threw(NotFound(name))
             ELSE Returned(<<f.calendars[CHOOSE i \in hits : \A j \in hits : i <= j]>>)

\* lines 98-99 and 172-173: getCalendar, then calendar.displayName is read
SelectCalendar(f, name) ==
    LET g == GetCalendar(f, name)
    IN  IF g.out = "returned" /\ g.val = <<>> THEN Threw(UndefinedCalendar) ELSE g

\* one block of listCalendars, lines 84-92 (components, timezone and colour
\* are not part of the calendars here: 'Not specified')
CalendarBlock(cal) ==
    [calendar |-> cal.displayName, url |-> cal.url,
     description |-> IF Truthy(cal.description) THEN cal.description
                     ELSE "No description"]

\* listCalendars, lines 83-93
ListCalendars(f) == [i \in 1..Len(f.calendars) |-> CalendarBlock(f.calendars[i])]

\* listEvents after the objects arrived, lines 179-289
ListEventsResult(objs, ws, we) ==
    LET kept == FilterEvents(objs, NewDate(ws), NewDate(we))
    IN  [kept |-> kept, val |-> JoinLines(FormatEvents(kept))]

Begin(op, pc, name) ==
    [NoCall EXCEPT !.op = op, !.pc = pc, !.name = name, !.lifeAt = svc[0].life]

Finish(c, r) == [c EXCEPT !.pc = "done", !.out = r.out, !.err = r.err, !.val = r.val]

\* new CalendarService(), lines 18-23
Construct ==
    /\ ncalls < MaxCalls
    /\ svc[0].life = "absent"
    /\ ncalls' = ncalls + 1
    /\ IF Constructor(baseUrlSet) # NoFacade
       THEN /\ svc' = [svc EXCEPT ![0] = Constructor(baseUrlSet)]
            /\ call' = [call EXCEPT ![ncalls + 1] = Finish(Begin("new", "run", Absent), Returned(<<>>))]
       ELSE /\ svc' = svc
            /\ call' = [call EXCEPT ![ncalls + 1] = Finish(Begin("new", "run", Absent), Threw(MissingBaseUrl))]
    /\ UNCHANGED <<baseUrlSet, tzOffset, globalFetch, transports, tr, req, nextUuid,
                   registered, closedIds, objects>>

\* global.fetch when initialize() reaches line 54: the proxy is assigned at
\* line 28 and the saved fetch is assigned back at line 47
FetchAtConstruction(originalFetch) ==
    LET installed == "proxy"
        restored == originalFetch
    IN  restored

\* global.fetch(input) for an input with '/.well-known/caldav', lines 28-44:
\* the proxy answers 302 with Location: baseUrl, the original fetch goes to
\* the network
WellKnownResponse(fetch) == IF fetch = "proxy" THEN "redirect" ELSE "network"

\* initialize() up to await createDAVClient, lines 25-62
InitializeStart ==
    /\ ncalls < MaxCalls
    /\ svc[0].life \in {"Uninitialized", "Failed"}
    /\ ncalls' = ncalls + 1
    /\ globalFetch' = FetchAtConstruction(globalFetch)
    /\ IF baseUrlSet
       THEN /\ svc' = [svc EXCEPT ![0] = InitializeEnter(svc[0])]
            /\ call' = [call EXCEPT ![ncalls + 1] =
                           [Begin("initialize", "awaitClient", Absent) EXCEPT !.sent = TRUE]]
       ELSE /\ svc' = [svc EXCEPT ![0] = InitializeRejected(svc[0])]
            /\ call' = [call EXCEPT ![ncalls + 1] =
                           Finish(Begin("initialize", "run", Absent), Threw(MissingBaseUrl))]
    /\ UNCHANGED <<baseUrlSet, tzOffset, transports, tr, req, nextUuid, registered,
                   closedIds, objects>>

\* createDAVClient, under construction, fetches the well-known URL through
\* global.fetch, line 54
DiscoveryFetch(c) ==
    /\ call[c].op = "initialize" /\ call[c].pc = "awaitClient"
    /\ call[c].discovery = "none"
    /\ call' = [call EXCEPT ![c].discovery = WellKnownResponse(globalFetch)]
    /\ UNCHANGED <<baseUrlSet, tzOffset, globalFetch, transports, tr, req, nextUuid,
                   registered, closedIds, svc, objects, ncalls>>

\* createDAVClient rejects, line 54
InitializeClientRejected(c) ==
    /\ call[c].op = "initialize" /\ call[c].pc = "awaitClient"
    /\ svc' = [svc EXCEPT ![0] = InitializeRejected(svc[0])]
    /\ call' = [call EXCEPT ![c] = Finish(call[c], Threw("createDAVClient failed"))]
    /\ UNCHANGED <<baseUrlSet, tzOffset, globalFetch, transports, tr, req, nextUuid,
                   registered, closedIds, objects, ncalls>>

\* createDAVClient resolves, line 54; fetchCalendars is sent, line 64
InitializeClientSettled(c) ==
    /\ call[c].op = "initialize" /\ call[c].pc = "awaitClient"
    /\ svc' = [svc EXCEPT ![0] = InitializeClient(svc[0])]
    /\ call' = [call EXCEPT ![c].pc = "awaitCalendars"]
    /\ UNCHANGED <<baseUrlSet, tzOffset, globalFetch, transports, tr, req, nextUuid,
                   registered, closedIds, objects, ncalls>>

\* fetchCalendars rejects, line 64
InitializeCalendarsRejected(c) ==
    /\ call[c].op = "initialize" /\ call[c].pc = "awaitCalendars"
    /\ svc' = [svc EXCEPT ![0] = InitializeRejected(svc[0])]
    /\ call' = [call EXCEPT ![c] = Finish(call[c], Threw("fetchCalendars failed"))]
    /\ UNCHANGED <<baseUrlSet, tzOffset, globalFetch, transports, tr, req, nextUuid,
                   registered, closedIds, objects, ncalls>>

\* fetchCalendars resolves with ans, lines 64-69
InitializeCalendarsSettled(c, ans) ==
    /\ call[c].op = "initialize" /\ call[c].pc = "awaitCalendars"
    /\ LET f == InitializeCalendars(svc[0], ans)
       IN  /\ svc' = [svc EXCEPT ![0] = f]
           /\ call' = [call EXCEPT ![c] =
                          [Finish(call[c], IF f.life = "Failed" THEN Threw(NoCalendarsFound)
                                           ELSE Returned(<<>>))
                           EXCEPT !.answer = ans]]
    /\ UNCHANGED <<baseUrlSet, tzOffset, globalFetch, transports, tr, req, nextUuid,
                   registered, closedIds, objects, ncalls>>

\* getCalendar(name) called on the facade, lines 72-81
GetCalendarCall(name) ==
    /\ ncalls < MaxCalls
    /\ svc[0].life # "absent"
    /\ ncalls' = ncalls + 1
    /\ call' = [call EXCEPT ![ncalls + 1] =
                   Finish(Begin("getCalendar", "run", name), GetCalendar(svc[0], name))]
    /\ UNCHANGED <<baseUrlSet, tzOffset, globalFetch, transports, tr, req, nextUuid,
                   registered, closedIds, svc, objects>>

\* listCalendars(), lines 83-93: nothing is awaited
ListCalendarsCall ==
    /\ ncalls < MaxCalls
    /\ svc[0].life # "absent"
    /\ ncalls' = ncalls + 1
    /\ call' = [call EXCEPT ![ncalls + 1] =
                   Finish(Begin("listCalendars", "run", Absent), Returned(ListCalendars(svc[0])))]
    /\ UNCHANGED <<baseUrlSet, tzOffset, globalFetch, transports, tr, req, nextUuid,
                   registered, closedIds, svc, objects>>

\* the values Date.now() has returned to createEvent calls, in milliseconds
\* counted from the first of them
Stamps ==
    {call[c].submitted[1].filename.stamp : c \in {x \in Calls : call[x].submitted # <<>>}}

\* the values Date.now() may return to the next createEvent call: the clock
\* does not run backwards; since the last call it has stayed within the same
\* millisecond or moved on to a later one
Times ==
    IF Stamps = {} THEN {0}
    ELSE LET last == CHOOSE m \in Stamps : \A n \in Stamps : n <= m
         IN  {last, last + 1} \cap (0..MaxNow)

\* the file name of line 139: `${encodeURIComponent(summary)}-${Date.now()}.ics`;
\* encodeURIComponent maps different summaries to different texts
Filename(summary, now) == [summary |-> summary, stamp |-> now, ext |-> ".ics"]

\* lines 150-154: the argument of createCalendarObject
Submission(calendar, a, now) ==
    [calendar |-> calendar, filename |-> Filename(a.summary, now),
     iCalString |-> ICalString(a)]

\* createEvent(...) up to await createCalendarObject, lines 95-154
CreateEventBegin(a, via, t) ==
    /\ ncalls < MaxCalls
    /\ svc[0].life # "absent"
    /\ ncalls' = ncalls + 1
    /\ LET g == SelectCalendar(svc[0], a.calendarName)
           b == [Begin("createEvent", "awaitCreate", a.calendarName)
                 EXCEPT !.via = via, !.tool = t, !.args = a]
       IN  IF g.out = "thrown"
           THEN call' = [call EXCEPT ![ncalls + 1] = Finish(b, g)]
           ELSE \E now \in Times :
                    /\ call' = [call EXCEPT ![ncalls + 1] =
                                   [b EXCEPT !.sent = TRUE,
                                             !.submitted = <<Submission(g.val[1], a, now)>>]]
    /\ UNCHANGED <<baseUrlSet, tzOffset, globalFetch, transports, tr, req, nextUuid,
                   registered, closedIds, svc, objects>>

\* createEvent called with the arguments a
CreateEventStart(a) == CreateEventBegin(a, "direct", NoArgs)

\* the create-event tool of the CLI is invoked with t, lines 391-396
CliCreateEvent(t) == CreateEventBegin(CliCreateArgs(t), "cli", t)

\* the create-event tool of the HTTP handler is invoked with t, api/mcp.ts 91-96
HttpCreateEvent(t) == CreateEventBegin(HttpCreateArgs(t), "http", t)

\* createCalendarObject resolves with the created object: event.url is
\* returned, lines 155-156
CreateEventSettled(c, u) ==
    /\ call[c].op = "createEvent" /\ call[c].pc = "awaitCreate"
    /\ call' = [call EXCEPT ![c] = [Finish(call[c], Returned(<<u>>)) EXCEPT !.reply = u]]
    /\ UNCHANGED <<baseUrlSet, tzOffset, globalFetch, transports, tr, req, nextUuid,
                   registered, closedIds, svc, objects, ncalls>>

\* a catch that throws an error of its own
RethrowWrapped(e) == Threw("Failed to create event")

\* lines 157-168: throw error
Rethrow(e) == Threw(e)

\* createCalendarObject rejects with e: the error is logged and thrown again
CreateEventRejected(c, e) ==
    /\ call[c].op = "createEvent" /\ call[c].pc = "awaitCreate"
    /\ call' = [call EXCEPT ![c] = [Finish(call[c], Rethrow(e)) EXCEPT !.reply = e]]
    /\ UNCHANGED <<baseUrlSet, tzOffset, globalFetch, transports, tr, req, nextUuid,
                   registered, closedIds, svc, objects, ncalls>>

\* listEvents(start, end, name) up to await fetchCalendarObjects, lines 171-177
ListEventsStart(name, w) ==
    /\ ncalls < MaxCalls
    /\ svc[0].life # "absent"
    /\ ncalls' = ncalls + 1
    /\ LET g == SelectCalendar(svc[0], name)
           b == [Begin("listEvents", "awaitObjects", name) EXCEPT !.ws = w.ws, !.we = w.we]
       IN  call' = [call EXCEPT ![ncalls + 1] =
                       IF g.out = "thrown" THEN Finish(b, g) ELSE [b EXCEPT !.sent = TRUE]]
    /\ UNCHANGED <<baseUrlSet, tzOffset, globalFetch, transports, tr, req, nextUuid,
                   registered, closedIds, svc, objects>>

\* fetchCalendarObjects resolves with the server's objects, lines 179-289;
\* toISOString() of line 183 throws a RangeError on an Invalid Date
ListEventsSettled(c) ==
    /\ call[c].op = "listEvents" /\ call[c].pc = "awaitObjects"
    /\ LET r == ListEventsResult(objects, call[c].ws, call[c].we)
       IN  call' = [call EXCEPT ![c] =
                       IF NewDate(call[c].ws).valid /\ NewDate(call[c].we).valid
                       THEN [Finish(call[c], Returned(r.val)) EXCEPT !.kept = r.kept]
                       ELSE Finish(call[c], Threw(InvalidTimeValue))]
    /\ UNCHANGED <<baseUrlSet, tzOffset, globalFetch, transports, tr, req, nextUuid,
                   registered, closedIds, svc, objects, ncalls>>

\* fetchCalendarObjects rejects, line 175
ListEventsRejected(c) ==
    /\ call[c].op = "listEvents" /\ call[c].pc = "awaitObjects"
    /\ call' = [call EXCEPT ![c] = Finish(call[c], Threw("fetchCalendarObjects failed"))]
    /\ UNCHANGED <<baseUrlSet, tzOffset, globalFetch, transports, tr, req, nextUuid,
                   registered, closedIds, svc, objects, ncalls>>

(***************************************************************************)
(* The CLI: main(), lines 294-442                                          *)
(***************************************************************************)
\* process.exit(1) from the catch of lines 433-436
Exit(msg) == [out |-> "exit", err |-> msg, val |-> <<1>>]

\* main() up to await calendarService.initialize(), lines 294-303
MainStart ==
    /\ ncalls = 0
    /\ svc[0].life = "absent"
    /\ ncalls' = 1
    /\ globalFetch' = FetchAtConstruction(globalFetch)
    /\ IF Constructor(baseUrlSet) # NoFacade
       THEN /\ svc' = [svc EXCEPT ![0] = InitializeEnter(Constructor(baseUrlSet))]
            /\ call' = [call EXCEPT ![1] =
                           [Begin("main", "awaitInitialize", Absent) EXCEPT !.sent = TRUE]]
       ELSE /\ svc' = svc
            /\ call' = [call EXCEPT ![1] =
                           [Finish(Begin("main", "run", Absent), Exit(MissingBaseUrl))
                            EXCEPT !.pc = "exited"]]
    /\ UNCHANGED <<baseUrlSet, tzOffset, transports, tr, req, nextUuid, registered,
                   closedIds, objects>>

\* initialize() rejects in main(): the catch exits with status 1
MainInitializeRejected ==
    /\ call[1].op = "main" /\ call[1].pc = "awaitInitialize"
    /\ svc' = [svc EXCEPT ![0] = InitializeRejected(svc[0])]
    /\ call' = [call EXCEPT ![1] =
                   [Finish(call[1], Exit("createDAVClient failed")) EXCEPT !.pc = "exited"]]
    /\ UNCHANGED <<baseUrlSet, tzOffset, globalFetch, transports, tr, req, nextUuid,
                   registered, closedIds, objects, ncalls>>

\* initialize() settles in main(): without calendars the catch exits with
\* status 1, otherwise the tools are registered and the stdio transport is
\* connected, lines 305-432
MainInitializeSettled(ans) ==
    /\ call[1].op = "main" /\ call[1].pc = "awaitInitialize"
    /\ LET f == InitializeCalendars(InitializeClient(svc[0]), ans)
       IN  /\ svc' = [svc EXCEPT ![0] = f]
           /\ call' = [call EXCEPT ![1] =
                          IF f.life = "Failed"
                          THEN [Finish(call[1], Exit(NoCalendarsFound)) EXCEPT !.pc = "exited"]
                          ELSE [call[1] EXCEPT !.pc = "serving"]]
    /\ UNCHANGED <<baseUrlSet, tzOffset, globalFetch, transports, tr, req, nextUuid,
                   registered, closedIds, objects, ncalls>>

(***************************************************************************)
(* Events and windows                                                      *)
(***************************************************************************)
\* day numbers of 2024: 1 is 2024-01-01, 80 is 2024-03-20
Event(summary, startLine, endLine) ==
    <<Text("BEGIN:VEVENT"), NL, Name("SUMMARY"), Colon, Text(summary), NL>>
        \o startLine \o <<NL>> \o endLine \o <<NL, Text("END:VEVENT")>>

\* DTSTART:20240320T100000 / DTEND:20240320T110000
TimedLocal ==
    Obj("/cal/work/a.ics",
        Event("Meeting", <<Name("DTSTART"), Colon, DateTime(80, 600, "")>>,
                         <<Name("DTEND"), Colon, DateTime(80, 660, "")>>))

\* DTSTART;TZID=America/New_York:20240320T100000, as createEvent writes it
TimedZoned ==
    Obj("/cal/work/c.ics",
        Event("Review",
              <<Name("DTSTART"), TzId("America/New_York"), Colon, DateTime(80, 600, "")>>,
              <<Name("DTEND"), TzId("America/New_York"), Colon, DateTime(80, 660, "")>>))

\* DTSTART;VALUE=DATE:20240101 / DTEND;VALUE=DATE:20240103
AllDayTwo ==
    Obj("/cal/work/d.ics",
        Event("Conference", <<Name("DTSTART"), VDate, Colon, DateOnly(1)>>,
                            <<Name("DTEND"), VDate, Colon, DateOnly(3)>>))

\* DTSTART;VALUE=DATE:20240103 / DTEND;VALUE=DATE:20240104
AllDayOne ==
    Obj("/cal/work/e.ics",
        Event("Holiday", <<Name("DTSTART"), VDate, Colon, DateOnly(3)>>,
                         <<Name("DTEND"), VDate, Colon, DateOnly(4)>>))

\* an event with a DURATION in place of DTEND
NoEnd ==
    Obj("/cal/work/f.ics",
        Event("Open", <<Name("DTSTART"), Colon, DateTime(80, 600, "")>>,
                      <<Text("DURATION:PT1H")>>))

\* dates new Date() cannot read
BadDates ==
    Obj("/cal/work/g.ics",
        Event("Broken", <<Name("DTSTART"), Colon, Text("tomorrow")>>,
                        <<Name("DTEND"), Colon, Text("later")>>))

\* one occurrence of a recurring event: RECURRENCE-ID:20240320T100000
StandupInstance ==
    Obj("/cal/work/team-standup-1700000000000.ics",
        Event("Standup",
              <<Name("DTSTART"), Colon, DateTime(80, 600, "")>>,
              <<Name("DTEND"), Colon, DateTime(80, 615, ""), NL,
                Name("RECURRENCE-ID"), Colon, DateTime(80, 600, "")>>))

Samples ==
    {TimedLocal, TimedZoned, AllDayTwo, AllDayOne, NoEnd, BadDates, StandupInstance,
     NoDataObj("/cal/work/h.ics")}

RECURSIVE SeqsUpTo(_, _)
SeqsUpTo(S, n) ==
    IF n = 0 THEN {<<>>}
    ELSE LET shorter == SeqsUpTo(S, n - 1)
         IN  shorter \cup {Append(q, x) : q \in shorter, x \in S}

\* answers of fetchCalendarObjects: the objects of a collection, each URL once
ObjectLists ==
    {q \in SeqsUpTo(Samples, MaxObjs) :
        \A i \in 1..Len(q), j \in 1..Len(q) : q[i].url = q[j].url => i = j}

Window(ws, we) == [ws |-> ws, we |-> we]

Windows ==
    { Window(IsoDate(2), IsoDate(2)),
      Window(IsoDate(3), IsoDate(5)),
      Window(IsoLocal(80, 660), IsoLocal(80, 720)),
      Window(IsoLocal(80, 540), IsoLocal(80, 600)),
      Window(IsoLocal(80, 661), IsoLocal(80, 720)),
      Window(IsoUtc(80, 660), IsoUtc(80, 720)),
      Window(IsoDate(1), IsoDate(81)),
      Window(IsoDate(5), IsoDate(3)),
      Window(IsoUtc(2, 720), IsoUtc(2, 780)),
      Window(NotIso, IsoDate(5)) }

\* getTimezoneOffset() of the process: UTC and UTC-5
TzOffsets == {0, 300}

\* what callers hand to createEvent
Summaries ==
    { <<Text("Meeting")>>,
      <<Text("Team"), NL, Text("sync")>>,
      <<Text("VALUE=DATE")>>,
      <<Text("Lunch "), Name("DTSTART"), Colon, Text("noon")>> }

Zones == {"America/New_York", "UTC"}

Recurrences == {Absent, "", "FREQ=DAILY"}

Locations == {Absent, "Room A"}

ReminderSamples ==
    { Reminder("DISPLAY", "-PT15M", "Starts soon"),
      Reminder("AUDIO", "-PT5M", Absent),
      Reminder("EMAIL", "-P1D", "") }

\* reminders in one call
MaxReminders == 2

PlainEvent ==
    EventArgs(<<Text("Meeting")>>, IsoLocal(80, 600), IsoLocal(80, 660),
              "America/New_York", Absent, Absent, Absent, <<>>)

\* start and end as a pair: local, UTC, and one new Date() cannot read
Spans ==
    { Window(IsoLocal(80, 600), IsoLocal(80, 660)),
      Window(IsoUtc(80, 600), IsoUtc(80, 660)),
      Window(NotIso, IsoLocal(80, 660)) }

EventInputs ==
    { EventArgs(sm, sp.ws, sp.we, z, r, l, n, rs) :
        sm \in Summaries, sp \in Spans, z \in Zones, r \in Recurrences,
        l \in Locations, n \in {Absent}, rs \in SeqsUpTo(ReminderSamples, MaxReminders) }

\* what the CLI schema lets through (lines 323-384): start and end without
\* zone, a timezone, optional recurrence, location, calendar name, reminders
CliToolInputs ==
    { EventArgs(sm, IsoLocal(80, 600), IsoLocal(80, 660), z, r, l, n, rs) :
        sm \in Summaries, z \in Zones, r \in Recurrences, l \in Locations,
        n \in {Absent, "Home"}, rs \in {<<>>, <<Reminder("DISPLAY", "-PT15M", Absent)>>} }

\* what the HTTP schema lets through (api/mcp.ts 58-89): start and end in
\* UTC, optional recurrence and location; no other parameter
HttpToolInputs ==
    { EventArgs(sm, IsoUtc(80, 600), IsoUtc(80, 660), Absent, r, l, Absent, <<>>) :
        sm \in Summaries, r \in Recurrences, l \in Locations }

\* what createCalendarObject answers or rejects with
CreatedUrls == {"/cal/work/Meeting-1710928800000.ics", "/cal/work/x.ics"}

SubmitErrors == {"401 Unauthorized", "ECONNREFUSED"}

FacadeInit ==
    /\ baseUrlSet \in BOOLEAN
    /\ tzOffset = 0
    /\ globalFetch = "original"
    /\ transports = <<>>
    /\ tr = [r \in Reqs |-> NoTransport]
    /\ req = [r \in Reqs |-> NewReq]
    /\ nextUuid = 0
    /\ registered = <<>>
    /\ closedIds = {}
    /\ svc = [s \in ServiceIds |-> NoFacade]
    /\ objects = <<TimedLocal, AllDayTwo>>
    /\ call = [c \in Calls |-> NoCall]
    /\ ncalls = 0

FacadeNext ==
    \/ Construct
    \/ InitializeStart
    \/ \E c \in Calls : DiscoveryFetch(c)
    \/ \E c \in Calls : InitializeClientRejected(c)
    \/ \E c \in Calls : InitializeClientSettled(c)
    \/ \E c \in Calls : InitializeCalendarsRejected(c)
    \/ \E c \in Calls, ans \in FetchAnswers : InitializeCalendarsSettled(c, ans)
    \/ \E name \in Names : GetCalendarCall(name)
    \/ ListCalendarsCall
    \/ \E name \in EventNames : CreateEventStart([PlainEvent EXCEPT !.calendarName = name])
    \/ \E c \in Calls : CreateEventSettled(c, "/cal/work/Meeting-1.ics")
    \/ \E c \in Calls : CreateEventRejected(c, "401 Unauthorized")
    \/ \E name \in EventNames : ListEventsStart(name, Window(IsoDate(1), IsoDate(81)))
    \/ \E c \in Calls : ListEventsSettled(c)
    \/ \E c \in Calls : ListEventsRejected(c)

FacadeSpec == FacadeInit /\ [][FacadeNext]_vars

\* listEvents on a Ready facade: one call per behaviour over a drawn answer
\* of the server, a drawn window and a drawn zone of the process
ListInit ==
    /\ baseUrlSet = TRUE
    /\ tzOffset \in TzOffsets
    /\ globalFetch = "original"
    /\ transports = <<>>
    /\ tr = [r \in Reqs |-> NoTransport]
    /\ req = [r \in Reqs |-> NewReq]
    /\ nextUuid = 0
    /\ registered = <<>>
    /\ closedIds = {}
    /\ svc = [s \in ServiceIds |->
                 IF s = 0 THEN [life |-> "Ready", client |-> TRUE, calendars |-> <<Work, Home>>]
                 ELSE NoFacade]
    /\ objects \in ObjectLists
    /\ call = [c \in Calls |-> NoCall]
    /\ ncalls = 0

ListNext ==
    \/ \E w \in Windows : ncalls = 0 /\ ListEventsStart(Absent, w)
    \/ \E c \in Calls : ListEventsSettled(c)
    \/ \E c \in Calls : ListEventsRejected(c)

ListSpec == ListInit /\ [][ListNext]_vars

\* createEvent on a Ready facade: one call per behaviour, made directly or
\* through the create-event tool of the CLI or of the HTTP handler
CreateInit ==
    /\ baseUrlSet = TRUE
    /\ tzOffset \in TzOffsets
    /\ globalFetch = "original"
    /\ transports = <<>>
    /\ tr = [r \in Reqs |-> NoTransport]
    /\ req = [r \in Reqs |-> NewReq]
    /\ nextUuid = 0
    /\ registered = <<>>
    /\ closedIds = {}
    /\ svc = [s \in ServiceIds |->
                 IF s = 0 THEN [life |-> "Ready", client |-> TRUE, calendars |-> <<Work, Home>>]
                 ELSE NoFacade]
    /\ objects = <<>>
    /\ call = [c \in Calls |-> NoCall]
    /\ ncalls = 0

CreateNext ==
    \/ \E a \in EventInputs : ncalls = 0 /\ CreateEventStart(a)
    \/ \E t \in CliToolInputs : ncalls = 0 /\ CliCreateEvent(t)
    \/ \E t \in HttpToolInputs : ncalls = 0 /\ HttpCreateEvent(t)
    \/ \E c \in Calls, u \in CreatedUrls : CreateEventSettled(c, u)
    \/ \E c \in Calls, e \in SubmitErrors : CreateEventRejected(c, e)

CreateSpec == CreateInit /\ [][CreateNext]_vars

\* start-up of one process: the CLI (main), a program using the class
\* (Construct), or the HTTP handler serving requests
NoRequestYet == \A r \in Reqs : req[r].pc = "new"

StartupNext ==
    \/ NoRequestYet /\ MainStart
    \/ MainInitializeRejected
    \/ \E ans \in RouterFetchAnswers : MainInitializeSettled(ans)
    \/ NoRequestYet /\ call[1].op # "main" /\ Construct
    \/ ncalls = 0 /\ RouterNext

StartupSpec == RouterInit /\ [][StartupNext]_vars

(***************************************************************************)
(* The compiled handler (.vercel/output/functions/api/api/mcp.js): the      *)
(* same routing, with the client built inside the initialization branch    *)
(***************************************************************************)
\* lines 37-48: const originalFetch = global.fetch; global.fetch = proxy
SaveAndReplace(fetch) == [originalFetch |-> fetch, fetch |-> "proxy"]

\* line 59: global.fetch = originalFetch
Restore(originalFetch) == originalFetch

\* lines 17-57: an initialization request without session id, up to the
\* await of createDAVClient
CompiledHandlerInit(r, hdr, kind) ==
    /\ MayStart(r)
    /\ ~ReuseBranch(hdr)
    /\ InitBranch(hdr, kind)
    /\ tr' = [tr EXCEPT ![r] = NewTransport]
    /\ req' = [req EXCEPT ![r] =
            [req[r] EXCEPT !.hdr = hdr, !.kind = kind, !.known = FALSE,
                           !.bound = "transport", !.t = r, !.pc = "awaitClient",
                           !.originalFetch = SaveAndReplace(globalFetch).originalFetch]]
    /\ globalFetch' = SaveAndReplace(globalFetch).fetch
    /\ UNCHANGED <<baseUrlSet, tzOffset, transports, nextUuid, registered,
                   closedIds, svc, objects, call, ncalls>>

\* line 49 rejects: the handler's promise rejects, line 59 is not reached
CompiledClientRejected(r) ==
    /\ req[r].pc = "awaitClient"
    /\ req' = [req EXCEPT ![r].pc = "done", ![r].resp = Thrown("createDAVClient failed")]
    /\ UNCHANGED <<baseUrlSet, tzOffset, globalFetch, transports, tr, nextUuid,
                   registered, closedIds, svc, objects, call, ncalls>>

\* line 49 resolves: line 59 assigns the saved fetch back, line 60 sends
\* fetchCalendars
CompiledClientSettled(r) ==
    /\ req[r].pc = "awaitClient"
    /\ globalFetch' = Restore(req[r].originalFetch)
    /\ req' = [req EXCEPT ![r].pc = "awaitCalendars"]
    /\ UNCHANGED <<baseUrlSet, tzOffset, transports, tr, nextUuid, registered,
                   closedIds, svc, objects, call, ncalls>>

\* line 60 rejects
CompiledCalendarsRejected(r) ==
    /\ req[r].pc = "awaitCalendars"
    /\ req' = [req EXCEPT ![r].pc = "done", ![r].resp = Thrown("fetchCalendars failed")]
    /\ UNCHANGED <<baseUrlSet, tzOffset, globalFetch, transports, tr, nextUuid,
                   registered, closedIds, svc, objects, call, ncalls>>

\* line 60 resolves: calendars[0] is taken unchecked (61), the tools are
\* registered (62-100) and server.connect(transport) is issued (102)
CompiledCalendarsSettled(r) ==
    /\ req[r].pc = "awaitCalendars"
    /\ req' = [req EXCEPT ![r].pc = "awaitConnect"]
    /\ UNCHANGED <<baseUrlSet, tzOffset, globalFetch, transports, tr, nextUuid,
                   registered, closedIds, svc, objects, call, ncalls>>

\* lines 13-16, 104-115 and 117 are those of api/mcp.ts
CompiledNext ==
    \/ \E r \in Reqs, hdr \in HeaderValues, kind \in Kinds : HandlerReuse(r, hdr, kind)
    \/ \E r \in Reqs, hdr \in HeaderValues, kind \in Kinds : CompiledHandlerInit(r, hdr, kind)
    \/ \E r \in Reqs, hdr \in HeaderValues, kind \in Kinds : HandlerReject(r, hdr, kind)
    \/ \E r \in Reqs : CompiledClientRejected(r)
    \/ \E r \in Reqs : CompiledClientSettled(r)
    \/ \E r \in Reqs : CompiledCalendarsRejected(r)
    \/ \E r \in Reqs : CompiledCalendarsSettled(r)
    \/ \E r \in Reqs : HandlerConnected(r)

CompiledSpec == RouterInit /\ [][CompiledNext]_vars

(***************************************************************************)
(* Session router: claims                                                  *)
(***************************************************************************)
\* the handler invocation r takes its first step
Starts(r) == req[r].pc = "new" /\ req'[r].pc # "new"

\* a step leaves the set of transports, servers and services as it was
NothingCreated ==
    /\ \A t \in Reqs : tr'[t].exists = tr[t].exists /\ tr'[t].server = tr[t].server
    /\ svc' = svc

\* C1: a request with a non-empty session id that is not in the mapping
\* (whatever its body), or with no session id and a non-initialization body,
\* is answered 400 with the -32000 error; the mapping is unchanged, nothing
\* is created and no handleRequest runs.
C1_RoutingFailureRejected ==
    [][\A r \in Reqs :
        (/\ Starts(r)
         /\ \/ Truthy(req'[r].hdr) /\ req'[r].hdr \notin DOMAIN transports
            \/ req'[r].hdr = Absent /\ req'[r].kind # "init")
        => (/\ req'[r].resp = BadRequest
            /\ req'[r].pc = "done"
            /\ transports' = transports
            /\ tr' = tr
            /\ NothingCreated)]_vars

\* C2: every key of the mapping maps to one live transport whose recorded
\* session id is the key, no transport sits under two keys, and no key was
\* ever inserted twice (each new session gets an id the mapping never held).
C2_RegistryInvariant ==
    /\ \A sid \in DOMAIN transports :
            /\ transports[sid] \in Reqs
            /\ tr[transports[sid]].exists
            /\ ~tr[transports[sid]].closed
            /\ tr[transports[sid]].sessionId = sid
    /\ \A s1 \in DOMAIN transports, s2 \in DOMAIN transports :
            transports[s1] = transports[s2] => s1 = s2
    /\ \A i \in 1..Len(registered), j \in 1..Len(registered) :
            registered[i] = registered[j] => i = j
    /\ DOMAIN transports \subseteq {registered[i] : i \in 1..Len(registered)}

\* C2 witness: two sessions were registered by overlapping initializations,
\* the first was closed and the second is still in the mapping.
C2_Witness ==
    /\ Len(registered) = 2
    /\ closedIds = {Uuid(1)}
    /\ DOMAIN transports = {Uuid(2)}

\* C3 as stated: a request whose session id is in the mapping is handled by
\* the transport registered under it, creates nothing and neither adds nor
\* removes a mapping entry.
C3_ReuseLeavesMapping ==
    [][\A r \in Reqs :
        (Starts(r) /\ req'[r].hdr \in DOMAIN transports)
        => (/\ req'[r].bound = "transport"
            /\ req'[r].t = transports[req'[r].hdr]
            /\ req'[r].resp.kind = "sdk"
            /\ NothingCreated
            /\ transports' = transports)]_vars

\* C3 amended: such a request is handled by the transport registered under
\* its id at lookup time, creates nothing and adds no entry; the only entry
\* it can remove is its own session's, and only when the request is the
\* DELETE that makes the transport close.
C3_ReuseAmended ==
    [][\A r \in Reqs :
        (Starts(r) /\ req'[r].hdr \in DOMAIN transports)
        => (/\ req'[r].bound = "transport"
            /\ req'[r].t = transports[req'[r].hdr]
            /\ req'[r].resp.kind = "sdk"
            /\ NothingCreated
            /\ DOMAIN transports' \subseteq DOMAIN transports
            /\ \A k \in DOMAIN transports' : transports'[k] = transports[k]
            /\ DOMAIN transports \ DOMAIN transports' \subseteq {req'[r].hdr}
            /\ (transports' # transports => req'[r].kind = "delete"))]_vars

\* C3 witness: one known session served a tool call through its transport
\* and was then closed by a DELETE.
C3_Witness ==
    \E r1 \in Reqs, r2 \in Reqs :
        /\ req[r1].known /\ req[r1].resp = SdkResp("dispatched")
        /\ req[r2].known /\ req[r2].resp = SdkResp("closed")
        /\ req[r1].t = req[r2].t

\* C4: when a registered transport closes, exactly the entry under its
\* recorded session id leaves the mapping; a closed id is never in the
\* mapping again and every later request bearing it gets the 400 / -32000
\* answer.
C4_Teardown ==
    /\ [](closedIds \cap DOMAIN transports = {})
    /\ [][/\ \A t \in Reqs :
                (~tr[t].closed /\ tr'[t].closed /\ tr[t].sessionId \in DOMAIN transports)
                => /\ DOMAIN transports' = DOMAIN transports \ {tr[t].sessionId}
                   /\ \A k \in DOMAIN transports' : transports'[k] = transports[k]
          /\ \A r \in Reqs :
                (Starts(r) /\ req'[r].hdr \in closedIds)
                => /\ req'[r].resp = BadRequest
                   /\ transports' = transports]_vars

\* C4 witness: a session was closed while registered and a later request
\* bearing its id was turned away.
C4_Witness ==
    \E r \in Reqs :
        /\ req[r].late
        /\ req[r].hdr \in closedIds
        /\ req[r].hdr \notin DOMAIN transports
        /\ req[r].resp = BadRequest

(***************************************************************************)
(* CalendarService: claims                                                 *)
(***************************************************************************)
\* C5: every listCalendars / createEvent / listEvents call made while the
\* facade is not Ready (initialize never called, in progress or failed)
\* fails with a configuration error naming the missing precondition,
\* returns no result and issues no CalDAV request.
C5_NotReadyCallsFail ==
    \A c \in Calls :
        ( /\ call[c].op \in {"listCalendars", "createEvent", "listEvents"}
          /\ call[c].pc = "done"
          /\ call[c].lifeAt # "Ready" )
        => /\ call[c].out = "thrown"
           /\ call[c].err \in {MissingBaseUrl, NoCalendarsFound}
           /\ ~call[c].sent

\* C6: when fetchCalendars answers no calendars (an empty or a missing
\* list) initialize fails with 'No calendars found', the calendar list stays
\* empty and the facade is not Ready; when initialize succeeds the calendar
\* list is the fetched list, in its order, and is not empty.
C6_InitializeOutcome ==
    /\ [](svc[0].life = "Ready" => svc[0].calendars # <<>>)
    /\ [][\A c \in Calls :
            ( /\ call[c].op = "initialize"
              /\ call[c].pc = "awaitCalendars"
              /\ call'[c].pc = "done"
              /\ call'[c].err # "fetchCalendars failed" )
            => IF call'[c].answer.missing \/ Len(call'[c].answer.list) = 0
               THEN /\ call'[c].out = "thrown"
                    /\ call'[c].err = NoCalendarsFound
                    /\ svc'[0].calendars = <<>>
                    /\ svc'[0].life # "Ready"
               ELSE /\ call'[c].out = "returned"
                    /\ svc'[0].life = "Ready"
                    /\ svc'[0].calendars = call'[c].answer.list]_vars

\* C6 witness: one initialize failed on an account without calendars, a
\* later one succeeded and left the three fetched calendars in their order.
C6_Witness ==
    \E c1, c2 \in Calls :
        /\ call[c1].op = "initialize" /\ call[c1].err = NoCalendarsFound
        /\ call[c1].answer.missing
        /\ call[c2].op = "initialize" /\ call[c2].out = "returned"
        /\ svc[0].calendars = <<Work, Home, Work2>>

\* C7 (as stated): on a Ready facade getCalendar with no name returns the
\* first calendar; with a name it returns a calendar whose display name
\* equals the name, or fails with a not-found error naming it when no
\* calendar matches; it never changes the calendar list.
C7_GetCalendarAsStated ==
    /\ [](\A c \in Calls :
            (call[c].op = "getCalendar" /\ call[c].pc = "done" /\ call[c].lifeAt = "Ready")
            => IF call[c].name = Absent
               THEN call[c].out = "returned" /\ call[c].val = <<svc[0].calendars[1]>>
               ELSE IF \E i \in 1..Len(svc[0].calendars) :
                          svc[0].calendars[i].displayName = call[c].name
                    THEN /\ call[c].out = "returned"
                         /\ call[c].val # <<>>
                         /\ call[c].val[1].displayName = call[c].name
                    ELSE call[c].out = "thrown" /\ call[c].err = NotFound(call[c].name))
    /\ [][\A c \in Calls :
            (call[c].pc = "idle" /\ call'[c].op = "getCalendar") => svc' = svc]_vars

\* C7 (amended): on a Ready facade getCalendar with no name or with the
\* empty string returns the first calendar; with a non-empty name it returns
\* a calendar of the list whose display name equals the name, or fails with
\* a not-found error naming it when no calendar matches; it never changes
\* the calendar list.
C7_GetCalendarAmended ==
    /\ [](\A c \in Calls :
            (call[c].op = "getCalendar" /\ call[c].pc = "done" /\ call[c].lifeAt = "Ready")
            => IF call[c].name = Absent \/ call[c].name = ""
               THEN call[c].out = "returned" /\ call[c].val = <<svc[0].calendars[1]>>
               ELSE IF \E i \in 1..Len(svc[0].calendars) :
                          svc[0].calendars[i].displayName = call[c].name
                    THEN /\ call[c].out = "returned"
                         /\ \E i \in 1..Len(svc[0].calendars) :
                                call[c].val = <<svc[0].calendars[i]>>
                         /\ call[c].val[1].displayName = call[c].name
                    ELSE call[c].out = "thrown" /\ call[c].err = NotFound(call[c].name))
    /\ [][\A c \in Calls :
            (call[c].pc = "idle" /\ call'[c].op = "getCalendar") => svc' = svc]_vars

\* C7 witness: on a Ready facade with several calendars getCalendar("") gave
\* the first one and getCalendar("Nonexistent") threw the not-found error.
C7_Witness ==
    \E c1, c2 \in Calls :
        /\ Len(svc[0].calendars) >= 2
        /\ call[c1].op = "getCalendar" /\ call[c1].lifeAt = "Ready"
        /\ call[c1].name = "" /\ call[c1].val = <<svc[0].calendars[1]>>
        /\ call[c2].op = "getCalendar" /\ call[c2].lifeAt = "Ready"
        /\ call[c2].name = "Nonexistent"
        /\ call[c2].err = "Calendar \"Nonexistent\" not found"

(***************************************************************************)
(* listEvents: claims                                                      *)
(***************************************************************************)
\* a listEvents call that returned its text
Listed(c) == call[c].op = "listEvents" /\ call[c].pc = "done" /\ call[c].out = "returned"

\* the block of object o is part of the text call c returned
InOutput(c, o) ==
    \E k \in 1..Len(call[c].val) : call[c].val[k] = FormatEvent(o)[1]

\* the objects at the positions S, in the order of objs
Picked(objs, S) ==
    LET idx == SelectSeq([i \in 1..Len(objs) |-> i], LAMBDA i : i \in S)
    IN  [k \in 1..Len(idx) |-> objs[idx[k]]]

\* C8: a decodable event with computed [eventStart, eventEnd] is in the
\* output for the window [windowStart, windowEnd] exactly when
\* eventStart <= windowEnd and eventEnd >= windowStart; equal endpoints
\* overlap: the event ending at 11:00:00 is listed for the window that
\* starts at 11:00:00.
C8_OverlapRule ==
    \A c \in Calls :
        Listed(c) =>
            LET ws == NewDate(call[c].ws)
                we == NewDate(call[c].we)
            IN  /\ \A i \in 1..Len(objects) :
                      ( /\ Decodable(objects[i])
                        /\ EventStart(objects[i]).valid /\ EventEnd(objects[i]).valid
                        /\ ws.valid /\ we.valid )
                      => ( InOutput(c, objects[i])
                           <=> ( /\ EventStart(objects[i]).t <= we.t
                                 /\ EventEnd(objects[i]).t >= ws.t ) )
                /\ ( /\ \E i \in 1..Len(objects) : objects[i] = TimedLocal
                     /\ call[c].ws = IsoLocal(80, 660)
                     /\ call[c].we = IsoLocal(80, 720) )
                   => InOutput(c, TimedLocal)

\* C8 witness: the 10:00-11:00 event was listed for the window 11:00-12:00
\* and an event outside the window was not.
C8_Witness ==
    \E c \in Calls :
        /\ Listed(c)
        /\ objects = <<AllDayTwo, TimedLocal>>
        /\ call[c].ws = IsoLocal(80, 660) /\ call[c].we = IsoLocal(80, 720)
        /\ InOutput(c, TimedLocal)
        /\ ~InOutput(c, AllDayTwo)

\* C9: the raw DTEND of an all-day event is exclusive: the event is listed
\* exactly when its start day is <= windowEnd and the day before its DTEND
\* is >= windowStart; the event with raw dates [20240101, 20240103) is
\* listed for the window [2024-01-02, 2024-01-02] and not for the window
\* [2024-01-03, 2024-01-05].
C9_AllDayInclusiveEnd ==
    \A c \in Calls :
        Listed(c) =>
            LET ws == NewDate(call[c].ws)
                we == NewDate(call[c].we)
            IN  /\ \A i \in 1..Len(objects) :
                      LET sv == MatchDate(objects[i].data, "DTSTART").value
                          ev == MatchDate(objects[i].data, "DTEND").value
                      IN  ( /\ Decodable(objects[i])
                            /\ IncludesValueDate(objects[i].data)
                            /\ Len(sv) = 1 /\ sv[1].t = "date"
                            /\ Len(ev) = 1 /\ ev[1].t = "date"
                            /\ ws.valid /\ we.valid )
                          => ( InOutput(c, objects[i])
                               <=> ( /\ sv[1].d * MinutesPerDay <= we.t
                                     /\ (ev[1].d - 1) * MinutesPerDay >= ws.t ) )
                /\ (\E i \in 1..Len(objects) : objects[i] = AllDayTwo)
                   => /\ (call[c].ws = IsoDate(2) /\ call[c].we = IsoDate(2))
                         => InOutput(c, AllDayTwo)
                      /\ (call[c].ws = IsoDate(3) /\ call[c].we = IsoDate(5))
                         => ~InOutput(c, AllDayTwo)

\* C9 witness: for the window [2024-01-03, 2024-01-05], west of Greenwich,
\* the all-day event [20240101, 20240103) was left out and the all-day event
\* of 2024-01-03 was listed.
C9_Witness ==
    \E c \in Calls :
        /\ Listed(c)
        /\ tzOffset = 300
        /\ objects = <<AllDayTwo, AllDayOne>>
        /\ call[c].ws = IsoDate(3) /\ call[c].we = IsoDate(5)
        /\ ~InOutput(c, AllDayTwo)
        /\ InOutput(c, AllDayOne)

\* C10: the blocks of the returned text are the blocks of a subsequence of
\* the objects the server returned, in the server's order: nothing is
\* reordered, repeated or added.
C10_OutputIsSubsequence ==
    \A c \in Calls :
        Listed(c) =>
            \E S \in SUBSET (1..Len(objects)) :
                /\ call[c].kept = Picked(objects, S)
                /\ call[c].val = JoinLines(FormatEvents(Picked(objects, S)))

\* C10 witness: two events inside the window were both listed, the first of
\* the server first.
C10_Witness ==
    \E c \in Calls :
        /\ Listed(c)
        /\ objects = <<TimedLocal, AllDayTwo>>
        /\ Len(call[c].val) = 6
        /\ call[c].val[1] = FormatEvent(TimedLocal)[1]
        /\ call[c].val[4] = FormatEvent(AllDayTwo)[1]

\* a listEvents call whose objects arrived and whose window new Date() reads
Answered(c) ==
    /\ call[c].op = "listEvents" /\ call[c].pc = "done"
    /\ call[c].err # "fetchCalendarObjects failed"
    /\ NewDate(call[c].ws).valid /\ NewDate(call[c].we).valid

\* C11: an object without text, or whose text lacks a matching DTSTART,
\* DTEND or SUMMARY, never makes listEvents throw; it is not among the
\* filtered events, and the text returned is the text the same call returns
\* for the answer with the undecodable objects taken out.
C11_MalformedContained ==
    \A c \in Calls :
        Answered(c) =>
            /\ call[c].out = "returned"
            /\ \A j \in 1..Len(call[c].kept) : Decodable(call[c].kept[j])
            /\ \A i \in 1..Len(objects) :
                  ~Decodable(objects[i]) =>
                      \A k \in 1..Len(call[c].val) : call[c].val[k] \notin
                          {ErrorLine("Error: Event data is missing"),
                           ErrorLine("Error: Could not parse event data")}
            /\ call[c].val =
                  JoinLines(FormatEvents(
                      SelectSeq(SelectSeq(objects, Decodable),
                                LAMBDA o : /\ EventStart(o).valid /\ EventEnd(o).valid
                                           /\ EventStart(o).t <= NewDate(call[c].we).t
                                           /\ EventEnd(o).t >= NewDate(call[c].ws).t)))

\* C11 witness: an answer with an object without text and a good event gave
\* the good event alone.
C11_Witness ==
    \E c \in Calls :
        /\ Answered(c)
        /\ objects = <<NoDataObj("/cal/work/h.ics"), TimedLocal>>
        /\ call[c].out = "returned"
        /\ Len(call[c].val) = 3
        /\ InOutput(c, TimedLocal)

\* C12: for an object of the answer whose text lacks a matching DTSTART,
\* DTEND or SUMMARY the returned text carries the 'could not parse' line for
\* that event.
C12_UnparsableIsMarked ==
    \A c \in Calls :
        Answered(c) =>
            \A i \in 1..Len(objects) :
                (objects[i].hasData /\ ~Decodable(objects[i]))
                => \E k \in 1..Len(call[c].val) :
                       call[c].val[k] = ErrorLine("Error: Could not parse event data")

(***************************************************************************)
(* createEvent: claims                                                     *)
(***************************************************************************)
\* a createEvent call that handed a text to createCalendarObject
Submitted(c) == call[c].op = "createEvent" /\ call[c].submitted # <<>>

\* C13: for every non-empty summary S, timed start and end and timezone
\* name Z, the text createEvent builds is parsable by listEvents' decode
\* step (DTSTART, DTEND and SUMMARY match), decodes to the summary S and to
\* the timezone tag Z on start and end, and is not taken for all-day.
C13_RoundTrip ==
    \A c \in Calls :
        ( /\ Submitted(c)
          /\ call[c].via # "http"
          /\ call[c].args.summary # <<>>
          /\ NewDate(call[c].args.start).valid
          /\ NewDate(call[c].args.end).valid )
        => LET text == call[c].submitted[1].iCalString
           IN  /\ Decodable(Obj("/cal/work/new.ics", text))
               /\ MatchSummary(text).value = call[c].args.summary
               /\ MatchDate(text, "DTSTART").tz = call[c].args.timezone
               /\ MatchDate(text, "DTEND").tz = call[c].args.timezone
               /\ ~IncludesValueDate(text)

\* the values of the lines of text that start with the property n
LineValues(text, n) ==
    { RestOfLine(text, i + 2) :
        i \in {j \in 2..(Len(text) - 1) :
                  text[j - 1] = NL /\ text[j] = Name(n) /\ text[j + 1] = Colon} }

\* how many lines of text start with the property n
LineCount(text, n) ==
    Cardinality({j \in 2..(Len(text) - 1) :
                    text[j - 1] = NL /\ text[j] = Name(n) /\ text[j + 1] = Colon})

\* C14: for every create-event tool invocation, CLI or HTTP, the submitted
\* text has exactly one RRULE line when a recurrence was supplied and none
\* otherwise, the RRULE value is the supplied recurrence, and a supplied
\* location is the LOCATION value.
C14_RecurrenceHandOff ==
    \A c \in Calls :
        (Submitted(c) /\ call[c].via \in {"cli", "http"})
        => LET text == call[c].submitted[1].iCalString
               t == call[c].tool
           IN  /\ LineCount(text, "RRULE") = (IF Truthy(t.recurrence) THEN 1 ELSE 0)
               /\ Truthy(t.recurrence) => LineValues(text, "RRULE") = {<<Text(t.recurrence)>>}
               /\ Truthy(t.location) => LineValues(text, "LOCATION") = {<<Text(t.location)>>}

\* where the VALARM blocks of text begin, in the order of the text
AlarmStarts(text) ==
    SelectSeq([i \in 1..Len(text) |-> i], LAMBDA i : text[i] = Text("BEGIN:VALARM"))

\* the VALARM block of text that begins at position i, END:VALARM included
AlarmBlock(text, i) ==
    LET ends == {j \in i..Len(text) : text[j] = Text("END:VALARM")}
    IN  SubSeq(text, i, IF ends = {} THEN Len(text)
                        ELSE CHOOSE j \in ends : \A k \in ends : j <= k)

C16_SubmitOutcome ==
    /\ [](\A c \in Calls : Len(call[c].submitted) <= 1)
    /\ [][\A c \in Calls :
            /\ (call[c].pc = "idle" /\ call'[c].op = "createEvent") => svc' = svc
            /\ (call[c].pc = "awaitCreate" /\ call'[c].pc = "done")
               => /\ svc' = svc
                  /\ call'[c].submitted = call[c].submitted
                  /\ Len(call'[c].submitted) = 1
                  /\ call'[c].out = "thrown"
                     => call'[c].err = call'[c].reply /\ call'[c].reply \in SubmitErrors
                  /\ call'[c].out = "returned"
                     => call'[c].val = <<call'[c].reply>> /\ call'[c].reply \in CreatedUrls]_vars

\* C16 witness: a createEvent call ended with the error the server rejected
\* its one submission with.
C16_Witness ==
    \E c \in Calls :
        /\ call[c].op = "createEvent" /\ call[c].pc = "done"
        /\ call[c].out = "thrown" /\ call[c].err = "ECONNREFUSED"
        /\ Len(call[c].submitted) = 1
        /\ svc[0].calendars = <<Work, Home>> /\ svc[0].client

(***************************************************************************)
(* Start-up: claims                                                        *)
(***************************************************************************)
\* C17: every fetch of a URL with '/.well-known/caldav' issued while
\* initialize() constructs the CalDAV client is answered by the 302 redirect
\* to the base URL, the original fetch not being invoked for it.
C17_DiscoveryShortCircuit ==
    \A c \in Calls :
        (call[c].op = "initialize" /\ call[c].discovery # "none")
        => call[c].discovery = "redirect"

\* C18: when CALDAV_BASE_URL is not configured no CalendarService comes to
\* exist and no CalDAV request is issued: the constructor throws the error
\* naming CALDAV_BASE_URL; main() exits with status 1 and never serves a
\* tool; an initialization request to the HTTP handler fails with that
\* error and no session is registered in the mapping.
C18_MissingBaseUrlFatal ==
    ~baseUrlSet =>
        /\ \A i \in ServiceIds : svc[i] = NoFacade
        /\ \A c \in Calls :
              /\ ~call[c].sent
              /\ call[c].op = "new" => call[c].out = "thrown" /\ call[c].err = MissingBaseUrl
              /\ call[c].op = "main"
                 => /\ call[c].pc = "exited"
                    /\ call[c].out = "exit" /\ call[c].val = <<1>>
                    /\ call[c].err = MissingBaseUrl
        /\ \A r \in Reqs :
              (req[r].pc # "new" /\ InitBranch(req[r].hdr, req[r].kind))
              => req[r].pc = "done" /\ req[r].resp = Thrown(MissingBaseUrl)
        /\ transports = <<>>
        /\ registered = <<>>

\* C18 witness: without the base URL an initialization request has failed
\* in the HTTP handler and nothing is registered.
C18_Witness ==
    /\ ~baseUrlSet
    /\ \E r \in Reqs :
          /\ req[r].kind = "init" /\ req[r].hdr = Absent
          /\ req[r].resp = Thrown(MissingBaseUrl)
    /\ transports = <<>>

(***************************************************************************)
(* listEvents: claims on what is listed how                                *)
(***************************************************************************)
\* C19: the block of a listed event whose text contains RECURRENCE-ID
\* carries a 'Recurrence Instance' indicator and a master-event-id line
\* whose value is the object URL without its path and without '.ics'
\* ('team-standup-1700000000000' for '.../team-standup-1700000000000.ics').
C19_RecurrenceInstanceMarked ==
    \A c \in Calls :
        (Listed(c) /\ InOutput(c, StandupInstance))
        => /\ \E k \in 1..Len(call[c].val) :
                 \E j \in 1..Len(call[c].val[k].toks) :
                     call[c].val[k].toks[j] = Text("Recurrence Instance")
           /\ \E k \in 1..Len(call[c].val) :
                 \E j \in 1..Len(call[c].val[k].toks) :
                     call[c].val[k].toks[j] = Text("team-standup-1700000000000")

\* the zone of a process whose getTimezoneOffset() is off (no daylight
\* saving on the days used here)
LocalZone(off) == IF off = 300 THEN "America/New_York" ELSE "UTC"

\* a start or end as C20 describes it: the local offset is added when the
\* field has a TZID other than the process's zone
AdjustedWhenForeign(value, tz) ==
    IF tz # Absent /\ tz # LocalZone(tzOffset)
    THEN AddMinutes(NewDate(DashDateTime(value)), tzOffset)
    ELSE NewDate(DashDateTime(value))

\* C20: a timed event is listed by the start and end that have the local
\* UTC offset added exactly when the field carried a TZID that differs from
\* the process's local zone; a field without TZID, or with the local zone
\* as TZID, is compared unadjusted.
C20_AdjustedWhenForeign ==
    \A c \in Calls :
        Listed(c) =>
            \A i \in 1..Len(objects) :
                LET sm == MatchDate(objects[i].data, "DTSTART")
                    em == MatchDate(objects[i].data, "DTEND")
                    st == AdjustedWhenForeign(sm.value, sm.tz)
                    en == AdjustedWhenForeign(em.value, em.tz)
                IN  ( /\ Decodable(objects[i])
                      /\ ~IncludesValueDate(objects[i].data)
                      /\ st.valid /\ en.valid )
                    => ( InOutput(c, objects[i])
                         <=> ( /\ st.t <= NewDate(call[c].we).t
                               /\ en.t >= NewDate(call[c].ws).t ) )

(***************************************************************************)
(* Fetch interception: claims                                              *)
(***************************************************************************)
\* no handler invocation is between its first step and its end
NoConstructionInFlight == \A r \in Reqs : req[r].pc \in {"new", "done"}

\* C21: once every started client construction has finished, with a value
\* or with an error, global.fetch is again the function that was installed
\* before any of them began
C21_FetchRestored == NoConstructionInFlight => globalFetch = "original"

(***************************************************************************)
(* Registration: claims                                                    *)
(***************************************************************************)
\* the initialization request r ends with an error of the facade
InitFails(r) ==
    /\ req[r].pc # "done" /\ req'[r].pc = "done"
    /\ req'[r].bound = "transport" /\ req'[r].t = r
    /\ req'[r].resp.kind = "throw"

\* C22: a session id enters the mapping only in the step that runs
\* handleRequest on a transport whose facade has completed initialize() and
\* whose server.connect has resolved; every session in the mapping is backed
\* by a Ready facade; an initialization request whose constructor or
\* initialize() fails leaves the mapping unchanged.
C22_RegisteredAfterReady ==
    /\ [](\A sid \in DOMAIN transports :
            /\ svc[transports[sid]].life = "Ready"
            /\ tr[transports[sid]].connected)
    /\ [][/\ \A sid \in DOMAIN transports' \ DOMAIN transports :
                LET t == transports'[sid]
                IN  /\ req[t].pc = "awaitConnect" /\ req'[t].pc = "done"
                    /\ svc[t].life = "Ready"
                    /\ ~tr[t].initialized /\ tr'[t].sessionId = sid
          /\ \A r \in Reqs : InitFails(r) => transports' = transports]_vars

\* C22 witness: one initialization registered its session on a Ready
\* facade, another one failed in initialize() and is not in the mapping.
C22_Witness ==
    /\ DOMAIN transports = {Uuid(1)}
    /\ svc[transports[Uuid(1)]].life = "Ready"
    /\ \E r \in Reqs :
            /\ req[r].pc = "done" /\ req[r].resp.kind = "throw"
            /\ req[r].bound = "transport" /\ req[r].t = r
            /\ svc[r].life = "Failed"
            /\ \A sid \in DOMAIN transports : transports[sid] # r

(***************************************************************************)
(* All-day events within a day: claims                                     *)
(***************************************************************************)
\* the window [ws, we] lies inside calendar day d, read in UTC and read in
\* the zone of the process
InsideDay(ws, we, d) ==
    /\ ws.valid /\ we.valid /\ ws.t <= we.t
    /\ \A off \in {0, tzOffset} :
            /\ d * MinutesPerDay + off <= ws.t
            /\ we.t < (d + 1) * MinutesPerDay + off

\* C23: an all-day event whose inclusive range of days (DTSTART up to the
\* day before DTEND) contains day d is listed for every window that lies
\* inside day d, also when the window starts after midnight of the event's
\* last day.
C23_AllDayWithinDay ==
    \A c \in Calls :
        Listed(c) =>
            \A i \in 1..Len(objects) :
                LET sv == MatchDate(objects[i].data, "DTSTART").value
                    ev == MatchDate(objects[i].data, "DTEND").value
                IN  ( /\ Decodable(objects[i])
                      /\ IncludesValueDate(objects[i].data)
                      /\ Len(sv) = 1 /\ sv[1].t = "date"
                      /\ Len(ev) = 1 /\ ev[1].t = "date"
                      /\ \E d \in sv[1].d .. (ev[1].d - 1) :
                            InsideDay(NewDate(call[c].ws), NewDate(call[c].we), d) )
                    => InOutput(c, objects[i])

(***************************************************************************)
(* createEvent file names: claims                                          *)
(***************************************************************************)
\* C24: no two createEvent calls of one process submit the same file name
\* to the same calendar, whether they follow each other or overlap at their
\* awaits.
C24_FilenamesDiffer ==
    \A c1 \in Calls, c2 \in Calls :
        ( /\ c1 # c2
          /\ call[c1].op = "createEvent" /\ call[c1].submitted # <<>>
          /\ call[c2].op = "createEvent" /\ call[c2].submitted # <<>>
          /\ call[c1].submitted[1].calendar = call[c2].submitted[1].calendar )
        => call[c1].submitted[1].filename # call[c2].submitted[1].filename

================================================================
